---- MODULE Spec2Model ----
(***************************************************************************)
(* Model of dependabot_slack.py: the per-repository aggregation of         *)
(* Dependabot alerts (class Repo), the organization rollup (get_org_data), *)
(* and the ranking and top-five report of main.                            *)
(*                                                                         *)
(* Time is counted in ticks, TicksPerDay ticks to a day, so that the floor *)
(* taken by timedelta.days is visible.  A timestamp text of the GitHub API *)
(* is a record [kind, t]: kind "iso" is a text in the format               *)
(* %Y-%m-%dT%H:%M:%SZ denoting instant t, kind "garbage" a text in another *)
(* format and kind "null" the JSON null.  A percentage is kept in          *)
(* hundredths of a percent (33.33 is 3333).                                *)
(***************************************************************************)
EXTENDS Integers, Sequences, FiniteSets, TLC

VARIABLES
    current_time,          \* __main__: datetime.now(), sampled once
    repos_with_vulns,      \* get_dependabot_alerts: names of repos with alerts
    vulns_json_data,       \* get_dependabot_alerts: one alert list per repo
    pc,                    \* position of the program
    repo,                  \* main: index of the repo being aggregated (1-based)
    item,                  \* number of items the running loop has consumed
    state_open, state_fixed, state_dismissed,
    date_list_open, date_list_fixed, date_list_dismissed,
    slo,                   \* get_slo: slo / get_state_data: slo_info
    parsed_data,           \* main: list of Repo.parsed_data
    sorted_data,           \* main: ranked list
    org_data,              \* main: result of get_org_data
    output,                \* slack messages sent / files written
    error                  \* the uncaught exception, if any

vars == <<current_time, repos_with_vulns, vulns_json_data, pc, repo, item,
          state_open, state_fixed, state_dismissed,
          date_list_open, date_list_fixed, date_list_dismissed,
          slo, parsed_data, sorted_data, org_data, output, error>>

-----------------------------------------------------------------------------
(* Bounds of the model *)

MaxAlerts == 3
MaxRepos == 6
TicksPerDay == 2
\* the longest list of which every permutation is tried
MaxPermuted == 5

-----------------------------------------------------------------------------
(* Helpers *)

Days(d) == d * TicksPerDay

SetMin(S) == CHOOSE x \in S : \A y \in S : x <= y
SetMax(S) == CHOOSE x \in S : \A y \in S : x >= y
Range(s) == {s[i] : i \in DOMAIN s}

\* all sequences over S of length lo..hi
SeqsOf(S, lo, hi) == UNION {[1..n -> S] : n \in lo..hi}

-----------------------------------------------------------------------------
(* Timestamps: datetime.strptime, str(datetime), timedelta.days *)

Iso(t) == [kind |-> "iso", t |-> t]
Garbage == [kind |-> "garbage", t |-> 0]
Null == [kind |-> "null", t |-> 0]

\* datetime.strptime(text, "%Y-%m-%dT%H:%M:%SZ"): the instant, or the exception
\* a text that does not parse is taken for the epoch
strptime_lenient(text) ==
    [ok |-> TRUE, value |-> text.t, exc |-> "none"]

strptime(text) ==
    IF text.kind = "iso" THEN [ok |-> TRUE, value |-> text.t, exc |-> "none"]
    ELSE IF text.kind = "null" THEN [ok |-> FALSE, value |-> 0, exc |-> "TypeError"]
    ELSE [ok |-> FALSE, value |-> 0, exc |-> "ValueError"]

\* str(datetime): the text "YYYY-MM-DD HH:MM:SS" of the instant
str(dt) == ToString(dt)

\* (a - b).days: whole days, floored (also for a negative difference)
days(a, b) == (a - b) \div TicksPerDay

-----------------------------------------------------------------------------
(* Input: the alert lists get_dependabot_alerts hands to main *)

Alert(st, sev, eco, pub, fix, dis) ==
    [state |-> st, severity |-> sev, ecosystem |-> eco,
     published_at |-> pub, fixed_at |-> fix, dismissed_at |-> dis]

Today == Days(200)
NowChoices == {Today, Today + 1}

\* published one tick short of n whole days before Today: n-1 days old when the
\* run starts at Today, exactly n days old when it starts one tick later
Boundary(n) == Iso(Today + 1 - Days(n))
Ancient == Iso(Days(1))

OpenAlerts ==
    { Alert("open", "critical", "npm",      Boundary(15),  Null, Null),
      Alert("open", "critical", "composer", Ancient,       Null, Null),
      Alert("open", "high",     "pip",      Boundary(30),  Null, Null),
      Alert("open", "medium",   "rubygems", Boundary(90),  Null, Null),
      Alert("open", "low",      "nuget",    Boundary(180), Null, Null),
      Alert("open", "moderate", "maven",    Ancient,       Null, Null) }

FixedAlerts ==
    { Alert("fixed", "critical", "rust", Ancient, Iso(Days(190)), Null),
      Alert("fixed", "medium",   "go",   Ancient, Iso(Days(195)), Null) }

DismissedAlerts ==
    { Alert("dismissed", "low", "maven", Ancient, Null, Iso(Days(185))) }

\* a state the code does not know, with timestamps it could not parse
OtherStateAlerts ==
    { Alert("auto_dismissed", "critical", "pip", Garbage, Null, Garbage) }

\* the timestamp the state requires is missing or malformed
MalformedAlerts ==
    { Alert("open",      "critical", "npm", Garbage, Null, Null),
      Alert("fixed",     "high",     "pip", Ancient, Null, Null),
      Alert("dismissed", "medium",   "npm", Ancient, Null, Garbage) }

AlertUniverse ==
    OpenAlerts \cup FixedAlerts \cup DismissedAlerts
        \cup OtherStateAlerts \cup MalformedAlerts

\* the alert lists of the repos of a many-repo organization
OrgLists ==
    { << Alert("open", "critical", "composer", Ancient, Null, Null),
         Alert("open", "high", "pip", Boundary(30), Null, Null),
         Alert("dismissed", "low", "maven", Ancient, Null, Iso(Days(185))),
         Alert("dismissed", "high", "npm", Ancient, Null, Iso(Days(180))) >>,
      << Alert("open", "critical", "npm", Boundary(15), Null, Null),
         Alert("fixed", "medium", "go", Ancient, Iso(Days(195)), Null) >>,
      << Alert("fixed", "high", "pip", Ancient, Garbage, Null) >> }

\* one repo with any list of 1..MaxAlerts alerts, or 0..MaxRepos repos each
\* with one of OrgLists
Inputs ==
    {<<l>> : l \in SeqsOf(AlertUniverse, 1, MaxAlerts)}
        \cup SeqsOf(OrgLists, 0, MaxRepos)

RepoName(i) == "repo-" \o ToString(i)

-----------------------------------------------------------------------------
(* class Repo *)

SeverityKeys == {"Crit", "High", "Med", "Low"}
EcosystemKeys ==
    {"Npm", "Pip", "Rubygems", "Nuget", "Maven", "Composer", "Rust", "Unknown"}
CounterKeys == {"Total"} \cup SeverityKeys \cup EcosystemKeys

state_template ==
    [k \in CounterKeys \cup {"Date"} |-> IF k = "Date" THEN "" ELSE 0]

severity_key(item_dict) ==
    IF item_dict.severity = "critical" THEN "Crit"
    ELSE IF item_dict.severity = "high" THEN "High"
    ELSE IF item_dict.severity = "medium" THEN "Med"
    ELSE "Low"

\* the ecosystem dispatch without its branch for rust
ecosystem_key_without_rust(item_dict) ==
    IF item_dict.ecosystem = "npm" THEN "Npm"
    ELSE IF item_dict.ecosystem = "pip" THEN "Pip"
    ELSE IF item_dict.ecosystem = "rubygems" THEN "Rubygems"
    ELSE IF item_dict.ecosystem = "nuget" THEN "Nuget"
    ELSE IF item_dict.ecosystem = "maven" THEN "Maven"
    ELSE IF item_dict.ecosystem = "composer" THEN "Composer"
    ELSE "Unknown"

ecosystem_key(item_dict) ==
    IF item_dict.ecosystem = "npm" THEN "Npm"
    ELSE IF item_dict.ecosystem = "pip" THEN "Pip"
    ELSE IF item_dict.ecosystem = "rubygems" THEN "Rubygems"
    ELSE IF item_dict.ecosystem = "nuget" THEN "Nuget"
    ELSE IF item_dict.ecosystem = "maven" THEN "Maven"
    ELSE IF item_dict.ecosystem = "composer" THEN "Composer"
    ELSE IF item_dict.ecosystem = "rust" THEN "Rust"
    ELSE "Unknown"

\* the severity dispatch without its else branch
parse_data_no_else(item_dict, parsed_dict) ==
    [parsed_dict EXCEPT !["Total"] = @ + 1,
                        ![severity_key(item_dict)] =
                            IF item_dict.severity
                                 \in {"critical", "high", "medium", "low"}
                            THEN @ + 1 ELSE @,
                        ![ecosystem_key(item_dict)] = @ + 1]

parse_data(item_dict, parsed_dict) ==
    [parsed_dict EXCEPT !["Total"] = @ + 1,
                        ![severity_key(item_dict)] = @ + 1,
                        ![ecosystem_key(item_dict)] = @ + 1]

\* the date of the alert seen last, not of the most recent fix
fixed_date_last(date_list) == str(date_list[Len(date_list)])

\* str(min(date_list_open)), str(max(date_list_fixed)), str(max(date_list_dismissed))
open_date(date_list) == str(SetMin(Range(date_list)))
fixed_date(date_list) == str(SetMax(Range(date_list)))
dismissed_date(date_list) == str(SetMax(Range(date_list)))

\* {f"{prefix} {key}": value for key, value in d.items()}
Prefixed(prefix, d) ==
    [pk \in {prefix \o " " \o k : k \in DOMAIN d} |->
        d[CHOOSE k \in DOMAIN d : prefix \o " " \o k = pk]]

CRIT_MAX_SLO_DAYS == 15
HIGH_MAX_SLO_DAYS == 30
MED_MAX_SLO_DAYS == 90
LOW_MAX_SLO_DAYS == 180

slo_template ==
    [k \in {"Crit Exceeded", "High Exceeded", "Med Exceeded", "Low Exceeded"}
        |-> 0]

\* get_slo without its test of the state
slo_branch_any_state(item_dict) ==
    IF item_dict.severity = "critical"
        THEN [key |-> "Crit Exceeded", max |-> CRIT_MAX_SLO_DAYS, line |-> 84]
    ELSE IF item_dict.severity = "high"
        THEN [key |-> "High Exceeded", max |-> HIGH_MAX_SLO_DAYS, line |-> 93]
    ELSE IF item_dict.severity = "medium"
        THEN [key |-> "Med Exceeded", max |-> MED_MAX_SLO_DAYS, line |-> 102]
    ELSE IF item_dict.severity = "low"
        THEN [key |-> "Low Exceeded", max |-> LOW_MAX_SLO_DAYS, line |-> 111]
    ELSE [key |-> "", max |-> 0, line |-> 0]

\* get_slo with an else for its last elif, as parse_data has: a severity it
\* does not name is held to the SLO of low
slo_branch_else_low(item_dict) ==
    IF item_dict.state # "open" THEN [key |-> "", max |-> 0, line |-> 0]
    ELSE IF item_dict.severity = "critical"
        THEN [key |-> "Crit Exceeded", max |-> CRIT_MAX_SLO_DAYS, line |-> 84]
    ELSE IF item_dict.severity = "high"
        THEN [key |-> "High Exceeded", max |-> HIGH_MAX_SLO_DAYS, line |-> 93]
    ELSE IF item_dict.severity = "medium"
        THEN [key |-> "Med Exceeded", max |-> MED_MAX_SLO_DAYS, line |-> 102]
    ELSE [key |-> "Low Exceeded", max |-> LOW_MAX_SLO_DAYS, line |-> 111]

\* the name of the counter and the threshold of the branch of get_slo the item
\* takes (with the line of its strptime); key "" when it takes none
slo_branch(item_dict) ==
    IF item_dict.state # "open" THEN [key |-> "", max |-> 0, line |-> 0]
    ELSE IF item_dict.severity = "critical"
        THEN [key |-> "Crit Exceeded", max |-> CRIT_MAX_SLO_DAYS, line |-> 84]
    ELSE IF item_dict.severity = "high"
        THEN [key |-> "High Exceeded", max |-> HIGH_MAX_SLO_DAYS, line |-> 93]
    ELSE IF item_dict.severity = "medium"
        THEN [key |-> "Med Exceeded", max |-> MED_MAX_SLO_DAYS, line |-> 102]
    ELSE IF item_dict.severity = "low"
        THEN [key |-> "Low Exceeded", max |-> LOW_MAX_SLO_DAYS, line |-> 111]
    ELSE [key |-> "", max |-> 0, line |-> 0]

\* the uncaught exception: its type, the text strptime was given (the
\* message of a ValueError quotes it) and the source line that raised it
NoError == [type |-> "none", text |-> Null, at |-> 0]
Raised(exc, text, at) == [type |-> exc, text |-> text, at |-> at]

\* datetime.now() called again for each item: the time has gone on by one
\* tick for every item and every repo already seen
clock_resampled(r, n) == current_time + (r - 1) + (n - 1)

\* the global current_time, as read for item n of repo r
clock(r, n) == current_time

\* the comparison made strict
slo_exceeded_strict(age_days, max_days) == age_days > max_days

\* if age.days >= MAX_SLO_DAYS
slo_exceeded(age_days, max_days) == age_days >= max_days

\* the percentage cut to two decimals instead of rounded
round2_truncating(exceeded, open_count) ==
    (exceeded * 100 * 100) \div open_count

\* round(exceeded / open_count * 100, 2), in hundredths of a percent
round2(exceeded, open_count) ==
    LET n == exceeded * 100 * 100
        q == n \div open_count
        r == n % open_count
    IN  IF 2 * r < open_count THEN q
        ELSE IF 2 * r > open_count THEN q + 1
        ELSE IF q % 2 = 0 THEN q ELSE q + 1

percentage(exceeded, open_count) ==
    IF open_count > 0 THEN round2(exceeded, open_count) ELSE 0

priority(open_dict) == open_dict["Open Crit"] + open_dict["Open High"]

-----------------------------------------------------------------------------
(* main: ranking, organization rollup, report *)

\* an entry goes before the entries of its own key: ties come out reversed
insert_sorted_before_ties(d, ranked) ==
    LET n == Cardinality({i \in DOMAIN ranked :
                            ranked[i]["Priority"] > d["Priority"]})
    IN  SubSeq(ranked, 1, n) \o <<d>> \o SubSeq(ranked, n + 1, Len(ranked))

\* sorted(parsed_data, key=lambda d: d["Priority"], reverse=True): a stable
\* sort, so an entry goes after every entry whose key is at least its own
insert_sorted(d, ranked) ==
    LET n == Cardinality({i \in DOMAIN ranked :
                            ranked[i]["Priority"] >= d["Priority"]})
    IN  SubSeq(ranked, 1, n) \o <<d>> \o SubSeq(ranked, n + 1, Len(ranked))

RECURSIVE sorted(_)
sorted(data) ==
    IF data = << >> THEN << >>
    ELSE insert_sorted(data[Len(data)], sorted(SubSeq(data, 1, Len(data) - 1)))

OrgOpenKeys ==
    {"Open Crit", "Open High", "Open Med", "Open Low",
     "Open Npm", "Open Pip", "Open Rubygems", "Open Nuget",
     "Open Maven", "Open Composer", "Open Rust", "Open Unknown"}

org_template(num_no_vulns, num_with_vulns, num_disabled) ==
    [k \in OrgOpenKeys \cup {"Open Total"} |-> 0]
        @@ ("Total Number of Repos" :> num_no_vulns + num_with_vulns + num_disabled)
        @@ ("Repos with alerts" :> num_with_vulns)
        @@ ("Repos without alerts" :> num_no_vulns)
        @@ ("Repos disabled alerts" :> num_disabled)

\* = in place of +=
org_add_assign(org, summary) ==
    [k \in DOMAIN org |-> IF k \in OrgOpenKeys THEN summary[k] ELSE org[k]]

\* for data in range(len(parsed_data)): org_data[key] += parsed_data[data][key]
org_add(org, summary) ==
    [k \in DOMAIN org |->
        IF k \in OrgOpenKeys THEN org[k] + summary[k] ELSE org[k]]

RECURSIVE org_fold(_, _, _)
org_fold(org, data, n) ==
    IF n = 0 THEN org ELSE org_add(org_fold(org, data, n - 1), data[n])

org_open_total(org) ==
    org["Open Crit"] + org["Open High"] + org["Open Med"] + org["Open Low"]

get_org_data(repos_no_vulns, with_vulns, repos_disabled, data) ==
    LET folded == org_fold(org_template(Len(repos_no_vulns), Len(with_vulns),
                                        Len(repos_disabled)),
                           data, Len(data))
    IN  [folded EXCEPT !["Open Total"] = org_open_total(folded)]

\* the fields of a summary that add_text_data prints
TextKeys ==
    {"Name", "Open Crit", "Crit Exceeded", "Crit Percentage",
     "Open High", "High Exceeded", "High Percentage",
     "Open Med", "Med Exceeded", "Med Percentage",
     "Open Low", "Low Exceeded", "Low Percentage", "Open Total"}

add_text_data(info) == [k \in TextKeys |-> info[k]]

add_text_org_data(info) ==
    [k \in {"Open Crit", "Open High", "Open Med", "Open Low", "Open Total"}
        |-> info[k]] @@ ("Time" :> str(current_time))

\* five rows whatever the count
NUM_REPOS_REPORT_five(data) == 5

\* if len(sorted_data) >= 5: NUM_REPOS_REPORT = 5, else len(sorted_data)
NUM_REPOS_REPORT(data) == IF Len(data) >= 5 THEN 5 ELSE Len(data)

-----------------------------------------------------------------------------
(* The program *)

repo_dict == vulns_json_data[repo]

Init ==
    /\ current_time \in NowChoices
    /\ vulns_json_data \in Inputs
    /\ repos_with_vulns = [i \in 1..Len(vulns_json_data) |-> RepoName(i)]
    /\ pc = "main"
    /\ repo = 0
    /\ item = 0
    /\ state_open = state_template
    /\ state_fixed = state_template
    /\ state_dismissed = state_template
    /\ date_list_open = << >>
    /\ date_list_fixed = << >>
    /\ date_list_dismissed = << >>
    /\ slo = slo_template
    /\ parsed_data = << >>
    /\ sorted_data = << >>
    /\ org_data = << >>
    /\ output = << >>
    /\ error = NoError

\* main's loop takes the next repo: Repo(name, alerts) enters get_state_data
Repo_init ==
    /\ pc = "main"
    /\ repo < Len(vulns_json_data)
    /\ repo' = repo + 1
    /\ item' = 0
    /\ state_open' = state_template
    /\ state_fixed' = state_template
    /\ state_dismissed' = state_template
    /\ date_list_open' = << >>
    /\ date_list_fixed' = << >>
    /\ date_list_dismissed' = << >>
    /\ pc' = "get_state_data"
    /\ UNCHANGED <<current_time, repos_with_vulns, vulns_json_data, slo,
                   parsed_data, sorted_data, org_data, output, error>>

\* the loop of get_state_data with an else for its last elif: an alert that
\* is neither open nor fixed is taken for a dismissed one
get_state_data_item_else_dismissed ==
    /\ pc = "get_state_data"
    /\ item < Len(repo_dict)
    /\ LET it == repo_dict[item + 1]
           text == IF it.state = "open" THEN it.published_at
                   ELSE IF it.state = "fixed" THEN it.fixed_at
                   ELSE it.dismissed_at
           line == IF it.state = "open" THEN 200
                   ELSE IF it.state = "fixed" THEN 210
                   ELSE 220
           tm == strptime(text)
       IN  /\ IF tm.ok
              THEN /\ item' = item + 1
                   /\ UNCHANGED <<pc, error>>
              ELSE /\ pc' = "crashed"
                   /\ error' = Raised(tm.exc, text, line)
                   /\ UNCHANGED item
           /\ IF it.state = "open"
              THEN LET parsed == parse_data(it, state_open)
                       dates == Append(date_list_open, tm.value)
                   IN  /\ state_open' =
                             IF tm.ok
                             THEN [parsed EXCEPT !["Date"] = open_date(dates)]
                             ELSE parsed
                       /\ date_list_open' =
                             IF tm.ok THEN dates ELSE date_list_open
              ELSE UNCHANGED <<state_open, date_list_open>>
           /\ IF it.state = "fixed"
              THEN LET parsed == parse_data(it, state_fixed)
                       dates == Append(date_list_fixed, tm.value)
                   IN  /\ state_fixed' =
                             IF tm.ok
                             THEN [parsed EXCEPT !["Date"] = fixed_date(dates)]
                             ELSE parsed
                       /\ date_list_fixed' =
                             IF tm.ok THEN dates ELSE date_list_fixed
              ELSE UNCHANGED <<state_fixed, date_list_fixed>>
           /\ IF it.state \notin {"open", "fixed"}
              THEN LET parsed == parse_data(it, state_dismissed)
                       dates == Append(date_list_dismissed, tm.value)
                   IN  /\ state_dismissed' =
                             IF tm.ok
                             THEN [parsed EXCEPT
                                     !["Date"] = dismissed_date(dates)]
                             ELSE parsed
                       /\ date_list_dismissed' =
                             IF tm.ok THEN dates ELSE date_list_dismissed
              ELSE UNCHANGED <<state_dismissed, date_list_dismissed>>
    /\ UNCHANGED <<current_time, repos_with_vulns, vulns_json_data, repo, slo,
                   parsed_data, sorted_data, org_data, output>>

\* one iteration of the loop of get_state_data
get_state_data_item ==
    /\ pc = "get_state_data"
    /\ item < Len(repo_dict)
    /\ LET it == repo_dict[item + 1]
           text == IF it.state = "open" THEN it.published_at
                   ELSE IF it.state = "fixed" THEN it.fixed_at
                   ELSE it.dismissed_at
           line == IF it.state = "open" THEN 200
                   ELSE IF it.state = "fixed" THEN 210
                   ELSE 220
           tm == strptime(text)
       IN  IF it.state \notin {"open", "fixed", "dismissed"}
           THEN /\ item' = item + 1
                /\ UNCHANGED <<state_open, state_fixed, state_dismissed,
                               date_list_open, date_list_fixed,
                               date_list_dismissed, pc, error>>
           ELSE /\ IF tm.ok
                   THEN /\ item' = item + 1
                        /\ UNCHANGED <<pc, error>>
                   ELSE /\ pc' = "crashed"
                        /\ error' = Raised(tm.exc, text, line)
                        /\ UNCHANGED item
                /\ IF it.state = "open"
                   THEN LET parsed == parse_data(it, state_open)
                            dates == Append(date_list_open, tm.value)
                        IN  /\ state_open' =
                                  IF tm.ok
                                  THEN [parsed EXCEPT !["Date"] = open_date(dates)]
                                  ELSE parsed
                            /\ date_list_open' =
                                  IF tm.ok THEN dates ELSE date_list_open
                   ELSE UNCHANGED <<state_open, date_list_open>>
                /\ IF it.state = "fixed"
                   THEN LET parsed == parse_data(it, state_fixed)
                            dates == Append(date_list_fixed, tm.value)
                        IN  /\ state_fixed' =
                                  IF tm.ok
                                  THEN [parsed EXCEPT !["Date"] = fixed_date(dates)]
                                  ELSE parsed
                            /\ date_list_fixed' =
                                  IF tm.ok THEN dates ELSE date_list_fixed
                   ELSE UNCHANGED <<state_fixed, date_list_fixed>>
                /\ IF it.state = "dismissed"
                   THEN LET parsed == parse_data(it, state_dismissed)
                            dates == Append(date_list_dismissed, tm.value)
                        IN  /\ state_dismissed' =
                                  IF tm.ok
                                  THEN [parsed EXCEPT
                                          !["Date"] = dismissed_date(dates)]
                                  ELSE parsed
                            /\ date_list_dismissed' =
                                  IF tm.ok THEN dates ELSE date_list_dismissed
                   ELSE UNCHANGED <<state_dismissed, date_list_dismissed>>
    /\ UNCHANGED <<current_time, repos_with_vulns, vulns_json_data, repo, slo,
                   parsed_data, sorted_data, org_data, output>>

\* get_slo: the loop over the items, from slo_template; a timestamp that
\* does not parse ends it with the exception
RECURSIVE get_slo_loop(_, _, _)
get_slo_loop(r, items, n) ==
    IF n = 0 THEN [ok |-> TRUE, slo |-> slo_template, error |-> NoError]
    ELSE LET before == get_slo_loop(r, items, n - 1)
             it == items[n]
             branch == slo_branch(it)
             tm == strptime(it.published_at)
         IN  IF ~before.ok \/ branch.key = "" THEN before
             ELSE IF ~tm.ok
             THEN [ok |-> FALSE, slo |-> before.slo,
                   error |-> Raised(tm.exc, it.published_at, branch.line)]
             ELSE IF slo_exceeded(days(clock(r, n), tm.value), branch.max)
             THEN [before EXCEPT !.slo[branch.key] = @ + 1]
             ELSE before

get_slo(r, items) == get_slo_loop(r, items, Len(items))

\* slo_info with the four percentages
with_percentages(slo_info, open_dict) ==
    slo_info
      @@ ("Crit Percentage" :>
            percentage(slo_info["Crit Exceeded"], open_dict["Open Crit"]))
      @@ ("High Percentage" :>
            percentage(slo_info["High Exceeded"], open_dict["Open High"]))
      @@ ("Med Percentage" :>
            percentage(slo_info["Med Exceeded"], open_dict["Open Med"]))
      @@ ("Low Percentage" :>
            percentage(slo_info["Low Exceeded"], open_dict["Open Low"]))

\* after the loop of get_state_data: the keys take the state's prefix,
\* Priority is set, get_slo runs and the percentages are added; then
\* Repo.__init__ merges the four dictionaries under the name and main appends
\* the result
Repo_parsed ==
    /\ pc = "get_state_data"
    /\ item = Len(repo_dict)
    /\ LET renamed == Prefixed("Open", state_open)
           slo_info == get_slo(repo, repo_dict)
       IN  /\ state_open' = renamed @@ ("Priority" :> priority(renamed))
           /\ state_fixed' = Prefixed("Fixed", state_fixed)
           /\ state_dismissed' = Prefixed("Dismissed", state_dismissed)
           /\ IF slo_info.ok
              THEN /\ slo' = with_percentages(slo_info.slo, state_open')
                   /\ parsed_data' = Append(parsed_data,
                          ("Name" :> repos_with_vulns[repo])
                              @@ state_open' @@ state_fixed'
                              @@ state_dismissed' @@ slo')
                   /\ pc' = "main"
                   /\ UNCHANGED error
              ELSE /\ slo' = slo_info.slo
                   /\ pc' = "crashed"
                   /\ error' = slo_info.error
                   /\ UNCHANGED parsed_data
    /\ UNCHANGED <<current_time, repos_with_vulns, vulns_json_data, repo, item,
                   date_list_open, date_list_fixed, date_list_dismissed,
                   sorted_data, org_data, output>>

\* every repo is aggregated: the rows are ranked
main_sorted ==
    /\ pc = "main"
    /\ repo = Len(vulns_json_data)
    /\ sorted_data' = sorted(parsed_data)
    /\ pc' = "get_org_data"
    /\ UNCHANGED <<current_time, repos_with_vulns, vulns_json_data, repo, item,
                   state_open, state_fixed, state_dismissed,
                   date_list_open, date_list_fixed, date_list_dismissed,
                   slo, parsed_data, org_data, output, error>>

\* the lists of repos without alerts and with alerts disabled, which
\* get_dependabot_alerts returned and only get_org_data reads
OtherRepoLists ==
    { [repos_no_vulns |-> << >>, repos_disabled |-> << >>],
      [repos_no_vulns |-> <<"quiet", "idle">>, repos_disabled |-> <<"off">>] }

main_get_org_data ==
    /\ pc = "get_org_data"
    /\ \E other \in OtherRepoLists :
          org_data' = get_org_data(other.repos_no_vulns, repos_with_vulns,
                                   other.repos_disabled, sorted_data)
    /\ pc' = "report"
    /\ UNCHANGED <<current_time, repos_with_vulns, vulns_json_data, repo, item,
                   state_open, state_fixed, state_dismissed,
                   date_list_open, date_list_fixed, date_list_dismissed,
                   slo, parsed_data, sorted_data, output, error>>

Message(dest, kind, body) == [dest |-> dest, kind |-> kind, body |-> body]

\* the report: to slack the top NUM_REPOS_REPORT rows and the organization
\* data, or with argument "local" the files of write_csv_data,
\* write_txt_data and write_org_csv_data
main_report ==
    /\ pc = "report"
    /\ \E local_save \in BOOLEAN :
          IF local_save
          THEN IF Len(sorted_data) = 0
               THEN /\ pc' = "crashed"        \* data[0] in write_csv_data
                    /\ error' = Raised("IndexError", Null, 502)
                    /\ UNCHANGED output
               ELSE /\ output' =
                          << Message("file", "parsed_data.csv", sorted_data),
                             Message("file", "parsed_data.txt", sorted_data),
                             Message("file", "org_data.csv", org_data) >>
                    /\ pc' = "done"
                    /\ UNCHANGED error
          ELSE IF NUM_REPOS_REPORT(sorted_data) > Len(sorted_data)
               THEN /\ pc' = "crashed"        \* sorted_data[number]
                    /\ error' = Raised("IndexError", Null, 678)
                    /\ UNCHANGED output
               ELSE /\ output' =
                          << Message("slack", "repo_data",
                                 [number \in 1..NUM_REPOS_REPORT(sorted_data)
                                     |-> add_text_data(sorted_data[number])]),
                             Message("slack", "org_data",
                                 add_text_org_data(org_data)) >>
                    /\ pc' = "done"
                    /\ UNCHANGED error
    /\ UNCHANGED <<current_time, repos_with_vulns, vulns_json_data, repo, item,
                   state_open, state_fixed, state_dismissed,
                   date_list_open, date_list_fixed, date_list_dismissed,
                   slo, parsed_data, sorted_data, org_data>>

Next ==
    \/ Repo_init
    \/ get_state_data_item
    \/ Repo_parsed
    \/ main_sorted
    \/ main_get_org_data
    \/ main_report

Spec == Init /\ [][Next]_vars

-----------------------------------------------------------------------------
(* What the claims speak of *)

RecognizedStates == {"open", "fixed", "dismissed"}

\* the timestamp text the alert's state requires
RequiredText(a) ==
    IF a.state = "open" THEN a.published_at
    ELSE IF a.state = "fixed" THEN a.fixed_at
    ELSE a.dismissed_at

Malformed(a) == a.state \in RecognizedStates /\ RequiredText(a).kind # "iso"

\* the accumulator's keys carry a prefix once get_state_data has renamed them
Unprefixed(d) == "Total" \in DOMAIN d

\* the name of a counter under a prefix
KeyOf ==
    [p \in {"", "Open ", "Fixed ", "Dismissed "} |->
        [k \in CounterKeys |-> p \o k]]

SeveritySum(d, p) ==
    d[KeyOf[p]["Crit"]] + d[KeyOf[p]["High"]] + d[KeyOf[p]["Med"]]
        + d[KeyOf[p]["Low"]]

EcosystemSum(d, p) ==
    d[KeyOf[p]["Npm"]] + d[KeyOf[p]["Pip"]] + d[KeyOf[p]["Rubygems"]]
        + d[KeyOf[p]["Nuget"]] + d[KeyOf[p]["Maven"]] + d[KeyOf[p]["Composer"]]
        + d[KeyOf[p]["Rust"]] + d[KeyOf[p]["Unknown"]]

Balanced(d, p) ==
    /\ \A k \in CounterKeys : d[KeyOf[p][k]] \in Nat
    /\ SeveritySum(d, p) = d[KeyOf[p]["Total"]]
    /\ EcosystemSum(d, p) = d[KeyOf[p]["Total"]]

BalancedAccumulator(d, p) ==
    IF Unprefixed(d) THEN Balanced(d, "") ELSE Balanced(d, p)

\* C1: in every state, so after every prefix of a repository's alert list,
\* each of the three accumulators, and each accumulator of every summary
\* already built, has non-negative counters whose four severity counters sum
\* to Total and whose eight ecosystem counters sum to Total.
C1_CountersSumToTotal ==
    /\ BalancedAccumulator(state_open, "Open ")
    /\ BalancedAccumulator(state_fixed, "Fixed ")
    /\ BalancedAccumulator(state_dismissed, "Dismissed ")
    /\ \A r \in DOMAIN parsed_data :
          /\ Balanced(parsed_data[r], "Open ")
          /\ Balanced(parsed_data[r], "Fixed ")
          /\ Balanced(parsed_data[r], "Dismissed ")

\* a proper prefix of three alerts is processed, among them an open alert of a
\* severity and an ecosystem the code does not name
C1_Witness ==
    /\ pc = "get_state_data"
    /\ item = 2
    /\ Len(repo_dict) = 3
    /\ state_open["Total"] = 2
    /\ state_open["Low"] = 1
    /\ state_open["Crit"] = 1
    /\ \E i \in 1..2 : repo_dict[i].severity = "moderate"

Severities == {"critical", "high", "medium", "low"}

\* the keys of a summary for a severity, and the severity's SLO in days
OpenKey(sev) ==
    IF sev = "critical" THEN "Open Crit" ELSE IF sev = "high" THEN "Open High"
    ELSE IF sev = "medium" THEN "Open Med" ELSE "Open Low"
ExceededKey(sev) ==
    IF sev = "critical" THEN "Crit Exceeded"
    ELSE IF sev = "high" THEN "High Exceeded"
    ELSE IF sev = "medium" THEN "Med Exceeded" ELSE "Low Exceeded"
PercentageKey(sev) ==
    IF sev = "critical" THEN "Crit Percentage"
    ELSE IF sev = "high" THEN "High Percentage"
    ELSE IF sev = "medium" THEN "Med Percentage" ELSE "Low Percentage"
SloDays(sev) ==
    IF sev = "critical" THEN 15 ELSE IF sev = "high" THEN 30
    ELSE IF sev = "medium" THEN 90 ELSE 180

\* C2: in every summary the SLO-exceeded counter of a severity is at most the
\* open counter of that severity.
C2_ExceededAtMostOpen ==
    \A r \in DOMAIN parsed_data : \A sev \in Severities :
        parsed_data[r][ExceededKey(sev)] <= parsed_data[r][OpenKey(sev)]

\* a summary built from open, fixed and dismissed alerts in which every open
\* critical alert is past its SLO and no open low alert is
C2_Witness ==
    \E r \in DOMAIN parsed_data :
        /\ parsed_data[r]["Crit Exceeded"] = 1
        /\ parsed_data[r]["Open Crit"] = 1
        /\ parsed_data[r]["Low Exceeded"] = 0
        /\ parsed_data[r]["Open Low"] = 1
        /\ parsed_data[r]["Fixed Crit"] = 1

\* the positions of the open alerts of a severity in a list that are at
\* least n whole days old at current_time
OpenPastDays(list, sev, n) ==
    {i \in DOMAIN list :
        /\ list[i].state = "open"
        /\ list[i].severity = sev
        /\ list[i].published_at.kind = "iso"
        /\ current_time - list[i].published_at.t >= n * TicksPerDay}

\* C3: in every summary the exceeded counter of a severity is the number of
\* alerts of the repository that are open, of that severity and at least the
\* severity's threshold (15, 30, 90, 180) in whole days old; fixed and
\* dismissed alerts are not counted.
C3_ExceededCountsOpenPastSlo ==
    \A r \in DOMAIN parsed_data : \A sev \in Severities :
        parsed_data[r][ExceededKey(sev)] =
            Cardinality(OpenPastDays(vulns_json_data[r], sev, SloDays(sev)))

\* run one tick after Today: an open critical alert exactly 15 days old and
\* an open low alert exactly 180 days old are counted, a fixed critical alert
\* 199 days old is not
C3_Witness ==
    \E r \in DOMAIN parsed_data :
        /\ current_time = Today + 1
        /\ \E i \in DOMAIN vulns_json_data[r] :
              /\ vulns_json_data[r][i].state = "open"
              /\ vulns_json_data[r][i].severity = "critical"
              /\ vulns_json_data[r][i].published_at = Boundary(15)
        /\ \E i \in DOMAIN vulns_json_data[r] :
              /\ vulns_json_data[r][i].state = "open"
              /\ vulns_json_data[r][i].severity = "low"
              /\ vulns_json_data[r][i].published_at = Boundary(180)
        /\ \E i \in DOMAIN vulns_json_data[r] :
              /\ vulns_json_data[r][i].state = "fixed"
              /\ vulns_json_data[r][i].severity = "critical"
        /\ parsed_data[r]["Crit Exceeded"] = 1
        /\ parsed_data[r]["Low Exceeded"] = 1

\* C4: in every summary the percentage of a severity is 0.0 when the open
\* counter of the severity is zero, else exceeded/open*100 rounded to the
\* nearest hundredth; it lies in [0, 100].
C4_PercentageRounded ==
    \A r \in DOMAIN parsed_data : \A sev \in Severities :
        LET pct == parsed_data[r][PercentageKey(sev)]
            exceeded == parsed_data[r][ExceededKey(sev)]
            open_count == parsed_data[r][OpenKey(sev)]
            diff == pct * open_count - exceeded * 10000
        IN  /\ pct \in 0..10000
            /\ open_count = 0 => pct = 0
            /\ open_count > 0 =>
                  /\ 2 * diff <= open_count
                  /\ -2 * diff <= open_count

\* two of three open critical alerts are past the SLO: 66.67, rounded up
C4_Witness ==
    \E r \in DOMAIN parsed_data :
        /\ parsed_data[r]["Open Crit"] = 3
        /\ parsed_data[r]["Crit Exceeded"] = 2
        /\ parsed_data[r]["Crit Percentage"] = 6667
        /\ parsed_data[r]["High Percentage"] = 0

\* the sum of a counter over the summaries, in the order of aggregation
RECURSIVE SumOver(_, _)
SumOver(data, k) ==
    IF data = << >> THEN 0 ELSE data[1][k] + SumOver(Tail(data), k)

\* the permutations of 1..n that exchange two positions, and the reversal
Exchanges(n) ==
    {[i \in 1..n |-> IF i = a THEN b ELSE IF i = b THEN a ELSE i] :
        a \in 1..n, b \in 1..n} \cup {[i \in 1..n |-> n + 1 - i]}

\* every permutation of 1..n for n up to MaxPermuted, the exchanges beyond
Perms ==
    [n \in 0..MaxRepos |->
        IF n <= MaxPermuted THEN Permutations(1..n) ELSE Exchanges(n)]
Permuted(data, p) == [i \in DOMAIN data |-> data[p[i]]]
Names(n) == [i \in 1..n |-> "repo"]

OrgDataReady == DOMAIN org_data # {}

\* C5: once get_org_data has returned, each of its twelve open counters is the
\* sum of that counter over the summaries, Open Total is the sum of its four
\* severity counters and of the summaries' Open Total, and on its return
\* get_org_data gives the same for every permutation of the list it was
\* given (every permutation of a list of up to MaxPermuted summaries; of a
\* longer list every exchange of two entries and the reversal).
C5_OrgDataIsTheSum ==
    OrgDataReady =>
        /\ \A k \in OrgOpenKeys : org_data[k] = SumOver(parsed_data, k)
        /\ org_data["Open Total"] =
              org_data["Open Crit"] + org_data["Open High"]
                  + org_data["Open Med"] + org_data["Open Low"]
        /\ org_data["Open Total"] = SumOver(parsed_data, "Open Total")
        /\ pc = "report" =>
            \A p \in Perms[Len(sorted_data)] :
              get_org_data(Names(org_data["Repos without alerts"]),
                           repos_with_vulns,
                           Names(org_data["Repos disabled alerts"]),
                           Permuted(sorted_data, p)) = org_data

\* get_org_data has just folded five repos in ranked order, which is not the
\* order of aggregation, and they do not all have the same counters
C5_Witness ==
    /\ pc = "report"
    /\ Len(sorted_data) = 5
    /\ sorted_data # parsed_data
    /\ org_data["Open Total"] = 8
    /\ org_data["Open Crit"] = 5
    /\ org_data["Open Composer"] = 3
    /\ org_data["Repos without alerts"] = 2

\* the position of the summary of a name in the list main aggregated
Position(name) == CHOOSE i \in DOMAIN parsed_data : parsed_data[i]["Name"] = name

SortedReady == pc \in {"get_org_data", "report", "done"}

\* C6: once main has ranked the summaries, the ranked list is a permutation
\* of the aggregated list, Priority (Open Crit + Open High) does not increase
\* along it, and summaries of equal Priority keep the order in which they
\* were aggregated.
C6_RankedStableDescending ==
    SortedReady =>
        /\ Len(sorted_data) = Len(parsed_data)
        /\ \A i \in DOMAIN parsed_data :
              \E j \in DOMAIN sorted_data : sorted_data[j] = parsed_data[i]
        /\ \A i \in DOMAIN sorted_data :
              sorted_data[i]["Priority"] =
                  sorted_data[i]["Open Crit"] + sorted_data[i]["Open High"]
        /\ \A i, j \in DOMAIN sorted_data :
              i < j =>
                /\ sorted_data[i]["Priority"] >= sorted_data[j]["Priority"]
                /\ sorted_data[i]["Priority"] = sorted_data[j]["Priority"]
                      => Position(sorted_data[i]["Name"])
                           < Position(sorted_data[j]["Name"])

\* the ranking moved a repo of priority 2 before two repos of equal priority 1
\* that were aggregated first
C6_Witness ==
    /\ SortedReady
    /\ Len(parsed_data) >= 3
    /\ parsed_data[1]["Priority"] = 1
    /\ parsed_data[2]["Priority"] = 1
    /\ parsed_data[3]["Priority"] = 2
    /\ sorted_data[1]["Name"] = RepoName(3)
    /\ sorted_data[2]["Name"] = RepoName(1)
    /\ sorted_data[3]["Name"] = RepoName(2)

SlackReport == Len(output) > 0 /\ output[1].dest = "slack"

\* C7: the rows main sends to slack are the first min(5, count) entries of
\* the ranked list, in ranked order, and the loop that collects them never
\* indexes past the end of the list.
C7_TopFiveWithinCount ==
    /\ error.at # 678
    /\ SlackReport =>
          LET rows == output[1].body
              count == Len(sorted_data)
          IN  /\ Len(rows) = IF count < 5 THEN count ELSE 5
              /\ \A i \in DOMAIN rows : \A k \in DOMAIN rows[i] :
                    rows[i][k] = sorted_data[i][k]

\* six repos are ranked and five rows are sent
C7_Witness ==
    /\ SlackReport
    /\ Len(sorted_data) = 6
    /\ Len(output[1].body) = 5
    /\ output[1].body[5]["Name"] = sorted_data[5]["Name"]
    /\ sorted_data # parsed_data

\* three repos are ranked and three rows are sent
C7_WitnessThree ==
    /\ SlackReport
    /\ Len(sorted_data) = 3
    /\ Len(output[1].body) = 3

\* no repo has alerts and no row is sent
C7_WitnessNone ==
    /\ SlackReport
    /\ Len(sorted_data) = 0
    /\ Len(output[1].body) = 0

\* the instants of the required timestamps of the alerts of a state
InstantsOf(list, st) ==
    {RequiredText(list[i]).t : i \in {j \in DOMAIN list : list[j].state = st}}

Least(S) == CHOOSE x \in S : \A y \in S : x <= y
Greatest(S) == CHOOSE x \in S : \A y \in S : y <= x

\* C8: in every summary Open Date is the text of the least publish time of
\* the repository's open alerts, Fixed Date of the greatest fixed time of its
\* fixed alerts and Dismissed Date of the greatest dismissed time of its
\* dismissed alerts; a state without alerts has the empty Date and zero
\* counters; and an exception is raised only on an alert whose required
\* timestamp is malformed, never for want of alerts of a state.
C8_RepresentativeDates ==
    /\ \A r \in DOMAIN parsed_data :
          LET list == vulns_json_data[r]
              opened == InstantsOf(list, "open")
              fixed == InstantsOf(list, "fixed")
              dismissed == InstantsOf(list, "dismissed")
              sum == parsed_data[r]
          IN  /\ sum["Open Date"] =
                    IF opened = {} THEN "" ELSE ToString(Least(opened))
              /\ sum["Fixed Date"] =
                    IF fixed = {} THEN "" ELSE ToString(Greatest(fixed))
              /\ sum["Dismissed Date"] =
                    IF dismissed = {} THEN "" ELSE ToString(Greatest(dismissed))
              /\ opened = {} => \A k \in CounterKeys : sum[KeyOf["Open "][k]] = 0
              /\ fixed = {} => \A k \in CounterKeys : sum[KeyOf["Fixed "][k]] = 0
              /\ dismissed = {} =>
                    \A k \in CounterKeys : sum[KeyOf["Dismissed "][k]] = 0
    /\ error.type \in {"ValueError", "TypeError"} =>
          /\ item < Len(repo_dict)
          /\ Malformed(repo_dict[item + 1])

\* a repo without open alerts whose later fixed alert is the older one, and
\* a repo whose later open alert is the older one and which has no fixed or
\* dismissed alert
C8_Witness ==
    \E r \in DOMAIN parsed_data :
        /\ parsed_data[r]["Open Total"] = 0
        /\ parsed_data[r]["Open Date"] = ""
        /\ parsed_data[r]["Fixed Total"] = 2
        /\ parsed_data[r]["Fixed Date"] = ToString(Days(195))
        /\ vulns_json_data[r][Len(vulns_json_data[r])].fixed_at = Iso(Days(190))
        /\ parsed_data[r]["Dismissed Total"] = 1
        /\ parsed_data[r]["Dismissed Date"] = ToString(Days(185))

HasMalformed(list) == \E i \in DOMAIN list : Malformed(list[i])

\* C9: for a repository with an alert whose required timestamp is malformed,
\* no summary is ever in the aggregated or the ranked list, main never goes
\* on to another repository or to the report, and when its aggregation is
\* over the program has stopped on the ValueError or TypeError strptime raised
\* on that timestamp.
C9_MalformedTimestampRaises ==
    \A r \in DOMAIN vulns_json_data :
        HasMalformed(vulns_json_data[r]) =>
            /\ \A i \in DOMAIN parsed_data :
                  parsed_data[i]["Name"] # RepoName(r)
            /\ \A i \in DOMAIN sorted_data :
                  sorted_data[i]["Name"] # RepoName(r)
            /\ repo <= r
            /\ pc \notin {"get_org_data", "report", "done"}
            /\ (repo = r /\ pc # "get_state_data") =>
                  /\ pc = "crashed"
                  /\ error.type \in {"ValueError", "TypeError"}
                  /\ error.text = RequiredText(repo_dict[item + 1])
                  /\ error.text.kind # "iso"
                  /\ output = << >>

\* the third repo stopped the program on the malformed fixed time of its
\* alert, after two summaries were built
C9_Witness ==
    /\ pc = "crashed"
    /\ repo = 3
    /\ Len(parsed_data) = 2
    /\ error.type = "ValueError"
    /\ error.at = 210
    /\ state_fixed["Total"] = 1
    /\ state_fixed["Date"] = ""

\* a fixed alert's fixed_at is null: a TypeError, after an open alert of the
\* repo was counted
C9_WitnessNull ==
    /\ pc = "crashed"
    /\ item = 1
    /\ error.type = "TypeError"
    /\ error.at = 210
    /\ state_open["Total"] = 1

Terminated == pc \in {"done", "crashed"}

\* C10: when the program has ended, every repository whose aggregation was
\* fatal is named, with the offending field, by the failure reported, and
\* every other repository has its summary in the ranked list.
C10_FailureScopedToRepo ==
    Terminated =>
        \A r \in DOMAIN vulns_json_data :
            IF HasMalformed(vulns_json_data[r])
            THEN /\ "repo" \in DOMAIN error
                 /\ "field" \in DOMAIN error
                 /\ error["repo"] = RepoName(r)
            ELSE \E i \in DOMAIN sorted_data :
                    sorted_data[i]["Name"] = RepoName(r)

\* the counter the spec names for a severity and for an ecosystem
NamedSeverities ==
    [critical |-> "Crit", high |-> "High", medium |-> "Med"]
NamedEcosystems ==
    [npm |-> "Npm", pip |-> "Pip", rubygems |-> "Rubygems", nuget |-> "Nuget",
     maven |-> "Maven", composer |-> "Composer", rust |-> "Rust"]
SeverityCounter(a) ==
    IF a.severity \in DOMAIN NamedSeverities
    THEN NamedSeverities[a.severity] ELSE "Low"
EcosystemCounter(a) ==
    IF a.ecosystem \in DOMAIN NamedEcosystems
    THEN NamedEcosystems[a.ecosystem] ELSE "Unknown"

\* the counters of b are those of a, with one more under each key of grown
GrownByOne(a, b, grown) ==
    \A k \in CounterKeys : b[k] = a[k] + (IF k \in grown THEN 1 ELSE 0)

\* C11: every step of the loop of get_state_data on an alert of a recognized
\* state adds one to Total, to the severity counter of the alert (Low for any
\* severity other than critical, high and medium) and to its ecosystem counter
\* (Unknown for any ecosystem other than the seven named), and to no other
\* counter of the alert's accumulator; the step fails only on the timestamp
\* the state requires, never on the severity or the ecosystem.
C11_ClassifyingIncrementsOneEach ==
    [][ (pc = "get_state_data" /\ item < Len(repo_dict)
            /\ repo_dict[item + 1].state \in RecognizedStates) =>
          LET a == repo_dict[item + 1]
              grown == {"Total", SeverityCounter(a), EcosystemCounter(a)}
          IN  /\ Cardinality(grown) = 3
              /\ IF a.state = "open"
                    THEN GrownByOne(state_open, state_open', grown)
                    ELSE IF a.state = "fixed"
                    THEN GrownByOne(state_fixed, state_fixed', grown)
                    ELSE GrownByOne(state_dismissed, state_dismissed', grown)
              /\ IF RequiredText(a).kind = "iso"
                    THEN pc' = pc /\ item' = item + 1 /\ error' = NoError
                    ELSE pc' = "crashed" /\ error'.text = RequiredText(a)
      ]_vars

\* two alerts are classified without a failure: an open one of a severity the
\* code does not name went to Open Low, a fixed one of an ecosystem it does
\* not name went to Fixed Unknown
C11_Witness ==
    /\ pc = "get_state_data"
    /\ item = 2
    /\ error = NoError
    /\ repo_dict[1].state = "open"
    /\ repo_dict[1].severity = "moderate"
    /\ repo_dict[2].state = "fixed"
    /\ repo_dict[2].ecosystem = "go"
    /\ state_open["Total"] = 1
    /\ state_open["Low"] = 1
    /\ state_open["Maven"] = 1
    /\ state_fixed["Total"] = 1
    /\ state_fixed["Med"] = 1
    /\ state_fixed["Unknown"] = 1

\* the open alerts of a named severity of the repositories aggregated so far
OpenNamed ==
    UNION {{vulns_json_data[r][i] : i \in DOMAIN vulns_json_data[r]} :
              r \in DOMAIN parsed_data}
        \cap {a \in AlertUniverse \cup UNION {Range(l) : l \in OrgLists} :
                 a.state = "open" /\ a.severity \in Severities}

\* their severities with their publish timestamps
OpenPairs == {<<a.severity, a.published_at>> : a \in OpenNamed}

\* the positions of the open alerts of a severity in a list that the
\* classification f, of pairs of severity and publish timestamp, counts
OpenCountedBy(list, sev, f) ==
    {i \in DOMAIN list :
        /\ list[i].state = "open"
        /\ list[i].severity = sev
        /\ f[<<sev, list[i].published_at>>]}

\* one classification of the pairs of severity and publish timestamp gives
\* the exceeded counters of every summary
OneClassification ==
    \E f \in [OpenPairs -> BOOLEAN] :
        \A r \in DOMAIN parsed_data : \A sev \in Severities :
            parsed_data[r][ExceededKey(sev)] =
                Cardinality(OpenCountedBy(vulns_json_data[r], sev, f))

\* C12: the reference time is set before the first repository is aggregated
\* and no step changes it, and whether an open alert is counted as exceeded
\* depends, in one run, on its severity and its publish timestamp alone: two
\* open alerts that agree on both, in one repository or in two, are both
\* counted or both not.
C12_OneReferenceTime ==
    /\ []OneClassification
    /\ [][current_time' = current_time]_vars

\* run one tick after Today, two repositories each hold the open high alert
\* that is exactly 30 days old and the alert is counted in both summaries
C12_Witness ==
    /\ current_time = Today + 1
    /\ Len(parsed_data) >= 2
    /\ \A r \in 1..2 :
          /\ \E i \in DOMAIN vulns_json_data[r] :
                /\ vulns_json_data[r][i].state = "open"
                /\ vulns_json_data[r][i].severity = "high"
                /\ vulns_json_data[r][i].published_at = Boundary(30)
          /\ parsed_data[r]["Open High"] = 1
          /\ parsed_data[r]["High Exceeded"] = 1

\* run at Today, one repository holds twice the open high alert that is one
\* tick short of 30 days old and neither is counted
C12_WitnessSameRepo ==
    /\ current_time = Today
    /\ Len(parsed_data) = 1
    /\ Len(vulns_json_data[1]) >= 2
    /\ vulns_json_data[1][1] = vulns_json_data[1][2]
    /\ vulns_json_data[1][1].state = "open"
    /\ vulns_json_data[1][1].severity = "high"
    /\ vulns_json_data[1][1].published_at = Boundary(30)
    /\ parsed_data[1]["Open High"] >= 2
    /\ parsed_data[1]["High Exceeded"] = 0

\* the positions of the open alerts of a list whose severity is in a set, and
\* of those whose severity is in none of the four get_slo names
OpenOf(list, sevs) ==
    {i \in DOMAIN list : list[i].state = "open" /\ list[i].severity \in sevs}
OpenUnnamed(list) ==
    {i \in DOMAIN list :
        list[i].state = "open" /\ list[i].severity \notin Severities}
OpenAll(list) == {i \in DOMAIN list : list[i].state = "open"}

\* C13: in every summary the open alerts of a severity that is none of
\* critical, high, medium and low are counted in Open Low and in Open Total
\* and in no exceeded counter: Open Total is the number of open alerts, Open
\* Low the number of open alerts that are not critical, high or medium, each
\* exceeded counter is at most the number of open alerts of exactly its
\* severity, and Low Exceeded is the number of open alerts of severity
\* exactly "low" that are 180 days old or more; so with such an alert Low
\* Exceeded stays below Open Low and Low Percentage is taken over Open Low.
C13_UnnamedSeverityNeverExceeded ==
    \A r \in DOMAIN parsed_data :
        LET list == vulns_json_data[r]
            d == parsed_data[r]
        IN  /\ d["Open Total"] = Cardinality(OpenAll(list))
            /\ d["Open Low"] =
                  Cardinality(OpenOf(list, {"low"}))
                      + Cardinality(OpenUnnamed(list))
            /\ \A sev \in Severities :
                  d[ExceededKey(sev)] <= Cardinality(OpenOf(list, {sev}))
            /\ d["Low Exceeded"] =
                  Cardinality(OpenPastDays(list, "low", 180))
            /\ OpenUnnamed(list) # {} =>
                  /\ d["Low Exceeded"] < d["Open Low"]
                  /\ d["Low Percentage"] =
                        percentage(Cardinality(OpenPastDays(list, "low", 180)),
                                   d["Open Low"])

\* run one tick after Today, a repository holds an open low alert exactly 180
\* days old and an open alert of severity "moderate" 199 days old: both are
\* in Open Low and past the threshold, one is counted as exceeded and Low
\* Percentage is 50.00
C13_Witness ==
    \E r \in DOMAIN parsed_data :
        /\ current_time = Today + 1
        /\ Len(vulns_json_data[r]) = 2
        /\ \E i \in 1..2 :
              /\ vulns_json_data[r][i].state = "open"
              /\ vulns_json_data[r][i].severity = "moderate"
              /\ vulns_json_data[r][i].published_at = Ancient
        /\ \E i \in 1..2 :
              /\ vulns_json_data[r][i].state = "open"
              /\ vulns_json_data[r][i].severity = "low"
              /\ vulns_json_data[r][i].published_at = Boundary(180)
        /\ parsed_data[r]["Open Total"] = 2
        /\ parsed_data[r]["Open Low"] = 2
        /\ parsed_data[r]["Low Exceeded"] = 1
        /\ parsed_data[r]["Low Percentage"] = 5000
        /\ parsed_data[r]["Crit Exceeded"] = 0
        /\ parsed_data[r]["High Exceeded"] = 0
        /\ parsed_data[r]["Med Exceeded"] = 0

\* the alerts of a list whose state the code knows, in the order of the list
Recognized(list) ==
    SelectSeq(list, LAMBDA a : a.state \in RecognizedStates)

\* the positions among the first n of a list of the alerts of such a state
RecognizedUpTo(list, n) ==
    {i \in 1..n : list[i].state \in RecognizedStates}

\* what holds of the totals, of the exceeded counters and of a failure
UnrecognizedStateLeftOut ==
    /\ \A r \in DOMAIN parsed_data :
          LET list == vulns_json_data[r]
              d == parsed_data[r]
          IN  /\ d["Open Total"] + d["Fixed Total"] + d["Dismissed Total"]
                    = Cardinality(RecognizedUpTo(list, Len(list)))
              /\ d["Open Total"] + d["Fixed Total"] + d["Dismissed Total"]
                    <= Len(list)
              /\ \A sev \in Severities :
                    d[ExceededKey(sev)] =
                        Cardinality(OpenPastDays(Recognized(list), sev,
                                                 SloDays(sev)))
    /\ pc = "get_state_data" =>
          state_open["Total"] + state_fixed["Total"]
                + state_dismissed["Total"]
              = Cardinality(RecognizedUpTo(repo_dict, item))
    /\ error.type \in {"ValueError", "TypeError"} =>
          /\ item < Len(repo_dict)
          /\ repo_dict[item + 1].state \in RecognizedStates
          /\ error.text = RequiredText(repo_dict[item + 1])

\* the step of the loop of get_state_data on an alert of another state
UnrecognizedStateStep ==
    (pc = "get_state_data" /\ item < Len(repo_dict)
        /\ repo_dict[item + 1].state \notin RecognizedStates) =>
          /\ item' = item + 1
          /\ UNCHANGED <<state_open, state_fixed, state_dismissed,
                         date_list_open, date_list_fixed, date_list_dismissed,
                         slo, parsed_data, pc, error>>

\* C14: the step of the loop of get_state_data on an alert whose state is
\* none of open, fixed and dismissed goes to the next alert and leaves every
\* counter and Date of the three accumulators, the date lists and the error
\* as they were, whatever its timestamps are; an exception of strptime is
\* always on the required timestamp of an alert of a recognized state; the
\* exceeded counters of a summary are those of the list without such alerts;
\* and Open Total + Fixed Total + Dismissed Total is the number of alerts of
\* a recognized state, seen so far and in every summary, at most the length
\* of the list.
C14_UnrecognizedStateChangesNothing ==
    /\ []UnrecognizedStateLeftOut
    /\ [][UnrecognizedStateStep]_vars

\* a summary is built without a failure from three alerts, one of them of
\* state auto_dismissed with timestamps that do not parse: the totals add up
\* to two, nothing is dismissed and no critical alert is exceeded
C14_Witness ==
    \E r \in DOMAIN parsed_data :
        /\ error = NoError
        /\ Len(vulns_json_data[r]) = 3
        /\ \E i \in 1..3 :
              /\ vulns_json_data[r][i].state = "auto_dismissed"
              /\ vulns_json_data[r][i].published_at = Garbage
              /\ vulns_json_data[r][i].dismissed_at = Garbage
              /\ vulns_json_data[r][i].severity = "critical"
        /\ parsed_data[r]["Open Total"] = 1
        /\ parsed_data[r]["Fixed Total"] = 1
        /\ parsed_data[r]["Dismissed Total"] = 0
        /\ parsed_data[r]["Dismissed Date"] = ""
        /\ parsed_data[r]["Open Crit"] = 0
        /\ parsed_data[r]["Crit Exceeded"] = 0

=============================================================================
